---- MODULE Spec2Model ----
(***************************************************************************)
(* Model of inventory_tool.py: a CSV device inventory that is read with    *)
(* csv.DictReader, searched by Name, listed, and exported as JSON or YAML. *)
(*                                                                         *)
(* Text is modelled at the level the code works on it.  A CSV line is a    *)
(* sequence of tokens, each either the delimiter Comma or a piece of field *)
(* text; quoting is not modelled.  A JSON or YAML document is the tree of  *)
(* nodes the serializer emits; a scalar node keeps whether it was written  *)
(* quoted or plain, which is what decides how a parser reads it back.      *)
(***************************************************************************)
EXTENDS Integers, Sequences, FiniteSets, TLC

VARIABLES
    fs,           \* path -> file content
    fs0,          \* the file system when the run started
    args,         \* the parsed command line
    readFailAt,   \* environment: where the read of the inventory fails
    writeFault,   \* environment: how the write of the export fails
    pc,           \* position of the run
    exc,          \* the exception that left main uncaught, "" if none
    devices,      \* the list read_inventory returned
    stdout,       \* the lines printed so far
    wrote,        \* the files opened for writing, with the writer that did
    parsed,       \* the export file parsed back
    device_name,  \* the name get_device_data is asked for
    found         \* what get_device_data returned

vars == <<fs, fs0, args, readFailAt, writeFault, pc, exc, devices, stdout,
          wrote, parsed, device_name, found>>

-----------------------------------------------------------------------------
(* Bounds of the model. *)

MaxRows == 2        \* data lines of an inventory file
MaxLineLen == 2     \* tokens of a line of a file read token by token
MaxInventory == 3   \* records handed to get_device_data

-----------------------------------------------------------------------------
(* Python values: a str, None, or a list of str.  One record shape for all *)
(* three, so that any two values can be compared.                          *)

None == [t |-> "none", s |-> "", l |-> <<>>]
Str(s) == [t |-> "str", s |-> s, l |-> <<>>]
List(l) == [t |-> "list", s |-> "", l |-> l]
Other(tag, s) == [t |-> tag, s |-> s, l |-> <<>>]

(* A dict is the sequence of its <<key, value>> pairs in insertion order,  *)
(* with no key twice.                                                      *)

DictKeys(d) == {d[i][1] : i \in 1..Len(d)}

DictHas(d, k) == k \in DictKeys(d)

DictGet(d, k) ==
    IF DictHas(d, k)
    THEN d[CHOOSE i \in 1..Len(d) : d[i][1] = k][2]
    ELSE None

DictSet(d, k, v) ==
    IF DictHas(d, k)
    THEN [i \in 1..Len(d) |-> IF d[i][1] = k THEN <<k, v>> ELSE d[i]]
    ELSE Append(d, <<k, v>>)

(* Python's == on two dicts: the same keys with the same values. *)
DictEq(d, e) ==
    /\ DictKeys(d) = DictKeys(e)
    /\ \A k \in DictKeys(d) : DictGet(d, k) = DictGet(e, k)

-----------------------------------------------------------------------------
(* csv.reader and csv.DictReader, as read_inventory uses them. *)

Comma == ","

RECURSIVE SplitFrom(_, _, _)
SplitFrom(line, i, cur) ==
    IF i > Len(line) THEN <<cur>>
    ELSE IF line[i] = Comma
         THEN <<cur>> \o SplitFrom(line, i + 1, "")
         ELSE SplitFrom(line, i + 1, cur \o line[i])

(* One row of csv.reader: an empty line is the empty row. *)
SplitLine(line) == IF line = <<>> THEN <<>> ELSE SplitFrom(line, 1, "")

RECURSIVE Zip(_, _, _, _)
Zip(fieldnames, row, i, d) ==
    IF i > Len(fieldnames) \/ i > Len(row) THEN d
    ELSE Zip(fieldnames, row, i + 1, DictSet(d, Str(fieldnames[i]), Str(row[i])))

RECURSIVE RestVal(_, _, _)
RestVal(fieldnames, i, d) ==
    IF i > Len(fieldnames) THEN d
    ELSE RestVal(fieldnames, i + 1, DictSet(d, Str(fieldnames[i]), None))

(* DictReader.__next__ on one non-empty row: dict(zip(fieldnames, row)),   *)
(* surplus values under restkey None, missing ones set to restval None.    *)
RowToDict(fieldnames, row) ==
    LET d == Zip(fieldnames, row, 1, <<>>)
        lf == Len(fieldnames)
        lr == Len(row)
    IN IF lf < lr THEN DictSet(d, None, List(SubSeq(row, lf + 1, lr)))
       ELSE IF lf > lr THEN RestVal(fieldnames, lr + 1, d)
       ELSE d

RECURSIVE RowsFrom(_, _, _)
RowsFrom(fieldnames, lines, i) ==
    IF i > Len(lines) THEN <<>>
    ELSE LET row == SplitLine(lines[i])
         IN IF row = <<>>
            THEN RowsFrom(fieldnames, lines, i + 1)
            ELSE <<RowToDict(fieldnames, row)>> \o RowsFrom(fieldnames, lines, i + 1)

DictReaderRowsKeepHeader(lines) ==
    IF lines = <<>> THEN <<>>
    ELSE RowsFrom(SplitLine(lines[1]), lines, 1)

(* list(csv.DictReader(file)): the first line names the fields, every      *)
(* later row that is not empty yields one dict.                            *)
DictReaderRows(lines) ==
    IF lines = <<>> THEN <<>>
    ELSE RowsFrom(SplitLine(lines[1]), lines, 2)

-----------------------------------------------------------------------------
(* Files. *)

NoFile == [kind |-> "absent", lines |-> <<>>, doc |-> <<>>]
CsvFile(lines) == [kind |-> "csv", lines |-> lines, doc |-> <<>>]
DocFile(kind, doc) == [kind |-> kind, lines |-> <<>>, doc |-> doc]
PartialFile == [kind |-> "partial", lines |-> <<>>, doc |-> <<>>]

NoFault == -1

(* read_inventory(filename).  readFailAt = 0: open() raises something      *)
(* other than FileNotFoundError; readFailAt = n > 0: reading line n of the *)
(* file raises.  Returns the list and what was printed.                    *)
ReadMissingSilent(filename) == [devices |-> <<>>, out |-> <<>>]

(* except FileNotFoundError *)
ReadMissing(filename) ==
    [devices |-> <<>>,
     out |-> <<"Error: Inventory file " \o filename \o " not found">>]

read_inventory(files, filename, failAt) ==
    LET f == files[filename] IN
    IF f.kind = "absent" THEN ReadMissing(filename)
    ELSE IF failAt = 0
    THEN [devices |-> <<>>, out |-> <<"Error reading inventory: <e>">>]
    ELSE IF failAt > 0 /\ failAt <= Len(f.lines)
    THEN [devices |-> DictReaderRows(SubSeq(f.lines, 1, failAt - 1)),
          out |-> <<"Error reading inventory: <e>">>]
    ELSE [devices |-> DictReaderRows(f.lines), out |-> <<>>]

-----------------------------------------------------------------------------
(* get_device_data(inventory_data, device_name): the first device whose    *)
(* .get('Name') equals the name.  The returned object is named by its      *)
(* position in the list; index 0 is None.                                  *)

NotFound == [index |-> 0, device |-> <<>>]

RECURSIVE ScanFrom(_, _, _)
ScanFrom(inventory_data, name, i) ==
    IF i > Len(inventory_data) THEN NotFound
    ELSE IF DictGet(inventory_data[i], Str("Name")) = name
         THEN [index |-> i, device |-> inventory_data[i]]
         ELSE ScanFrom(inventory_data, name, i + 1)

RECURSIVE ScanLast(_, _, _)
ScanLast(inventory_data, name, i) ==
    IF i < 1 THEN NotFound
    ELSE IF DictGet(inventory_data[i], Str("Name")) = name
         THEN [index |-> i, device |-> inventory_data[i]]
         ELSE ScanLast(inventory_data, name, i - 1)

get_device_data_last(inventory_data, name) ==
    ScanLast(inventory_data, name, Len(inventory_data))

get_device_data(inventory_data, name) == ScanFrom(inventory_data, name, 1)

-----------------------------------------------------------------------------
(* Documents.  A node is a scalar, written quoted or plain, or a sequence  *)
(* of scalars.  An object is a sequence of <<key scalar, value node>>; a   *)
(* document is the sequence of its objects.                                *)

Scalar(style, text) == [n |-> "scalar", style |-> style, text |-> text, items |-> <<>>]
SeqNode(items) == [n |-> "seq", style |-> "", text |-> "", items |-> items]

(* json.dump: a str key or value is a JSON string, None is null, a list is *)
(* an array; a key that is not a str is written as the string of its JSON  *)
(* form, so the key None becomes "null".                                   *)
JsonKey(k) == IF k.t = "none" THEN Scalar("quoted", "null") ELSE Scalar("quoted", k.s)

JsonValue(v) ==
    IF v.t = "none" THEN Scalar("plain", "null")
    ELSE IF v.t = "list"
    THEN SeqNode([i \in 1..Len(v.l) |-> Scalar("quoted", v.l[i])])
    ELSE Scalar("quoted", v.s)

JsonObject(d) == [i \in 1..Len(d) |-> <<JsonKey(d[i][1]), JsonValue(d[i][2])>>]

JsonDump(data) == [i \in 1..Len(data) |-> JsonObject(data[i])]

(* json.load: every key is a str, a later pair replaces an earlier one of  *)
(* the same key.                                                           *)
JsonLoadValue(node) ==
    IF node.n = "seq" THEN List([i \in 1..Len(node.items) |-> node.items[i].text])
    ELSE IF node.style = "plain" THEN None
    ELSE Str(node.text)

RECURSIVE JsonLoadObject(_, _, _)
JsonLoadObject(obj, i, d) ==
    IF i > Len(obj) THEN d
    ELSE JsonLoadObject(obj, i + 1,
                        DictSet(d, Str(obj[i][1].text), JsonLoadValue(obj[i][2])))

JsonLoad(doc) == [i \in 1..Len(doc) |-> JsonLoadObject(doc[i], 1, <<>>)]

(* YAML's implicit resolver: what a plain scalar of this text is read as.  *)
YamlResolve(text) ==
    IF text \in {"", "~", "null", "Null", "NULL"} THEN "null"
    ELSE IF text \in {"true", "false", "yes", "no", "on", "off"} THEN "bool"
    ELSE IF text \in {"0", "1"} THEN "int"
    ELSE "str"

YamlScalarPlain(v) ==
    IF v.t = "none" THEN Scalar("plain", "null") ELSE Scalar("plain", v.s)

(* yaml.dump: None is the plain scalar null; a str is written plain only   *)
(* when a plain scalar of its text is read back as a str, quoted otherwise.*)
YamlScalar(v) ==
    IF v.t = "none" THEN Scalar("plain", "null")
    ELSE IF YamlResolve(v.s) = "str" THEN Scalar("plain", v.s)
    ELSE Scalar("quoted", v.s)

YamlValue(v) ==
    IF v.t = "list"
    THEN SeqNode([i \in 1..Len(v.l) |-> YamlScalar(Str(v.l[i]))])
    ELSE YamlScalar(v)

YamlObject(d) == [i \in 1..Len(d) |-> <<YamlScalar(d[i][1]), YamlValue(d[i][2])>>]

YamlDump(data) == [i \in 1..Len(data) |-> YamlObject(data[i])]

YamlLoadScalar(node) ==
    IF node.style = "quoted" THEN Str(node.text)
    ELSE LET tag == YamlResolve(node.text)
         IN IF tag = "null" THEN None
            ELSE IF tag = "str" THEN Str(node.text)
            ELSE Other(tag, node.text)

YamlLoadValue(node) ==
    IF node.n = "seq"
    THEN List([i \in 1..Len(node.items) |-> YamlLoadScalar(node.items[i]).s])
    ELSE YamlLoadScalar(node)

RECURSIVE YamlLoadObject(_, _, _)
YamlLoadObject(obj, i, d) ==
    IF i > Len(obj) THEN d
    ELSE YamlLoadObject(obj, i + 1,
                        DictSet(d, YamlLoadScalar(obj[i][1]), YamlLoadValue(obj[i][2])))

YamlLoad(doc) == [i \in 1..Len(doc) |-> YamlLoadObject(doc[i], 1, <<>>)]

-----------------------------------------------------------------------------
(* write_json and write_yaml.  fault = "open": open() raises and the file  *)
(* is left as it was; fault = "dump": the dump raises after open() has     *)
(* truncated the file.  Either way the exception is caught and reported.   *)

write_json_to_inventory(files, data, filename, fault) ==
    IF fault = "open"
    THEN [fs |-> files, out |-> <<"Error writing JSON: <e>">>]
    ELSE IF fault = "dump"
    THEN [fs |-> [files EXCEPT !["inventory.csv"] = PartialFile],
          out |-> <<"Error writing JSON: <e>">>]
    ELSE [fs |-> [files EXCEPT !["inventory.csv"] = DocFile("json", JsonDump(data))],
          out |-> <<"Data written to " \o filename>>]

write_json(files, data, filename, fault) ==
    IF fault = "open"
    THEN [fs |-> files, out |-> <<"Error writing JSON: <e>">>]
    ELSE IF fault = "dump"
    THEN [fs |-> [files EXCEPT ![filename] = PartialFile],
          out |-> <<"Error writing JSON: <e>">>]
    ELSE [fs |-> [files EXCEPT ![filename] = DocFile("json", JsonDump(data))],
          out |-> <<"Data written to " \o filename>>]

write_yaml(files, data, filename, fault) ==
    IF fault = "open"
    THEN [fs |-> files, out |-> <<"Error writing YAML: <e>">>]
    ELSE IF fault = "dump"
    THEN [fs |-> [files EXCEPT ![filename] = PartialFile],
          out |-> <<"Error writing YAML: <e>">>]
    ELSE [fs |-> [files EXCEPT ![filename] = DocFile("yaml", YamlDump(data))],
          out |-> <<"Data written to " \o filename>>]

-----------------------------------------------------------------------------
(* main. *)

(* str(value), as an f-string renders it. *)
RECURSIVE Repr(_, _)
Repr(l, i) ==
    IF i > Len(l) THEN ""
    ELSE (IF i > 1 THEN ", " ELSE "") \o "'" \o l[i] \o "'" \o Repr(l, i + 1)

PyStr(v) ==
    IF v.t = "none" THEN "None"
    ELSE IF v.t = "list" THEN "[" \o Repr(v.l, 1) \o "]"
    ELSE v.s

ListKeys == <<"Name", "Management IP", "Description">>

(* device[key] raises KeyError when the key is missing. *)
HasListKeys(device) == \A i \in 1..Len(ListKeys) : DictHas(device, Str(ListKeys[i]))

DeviceLine(device) ==
    "  " \o PyStr(DictGet(device, Str("Name")))
         \o " (" \o PyStr(DictGet(device, Str("Management IP")))
         \o ") - " \o PyStr(DictGet(device, Str("Description")))

(* The loop of the list branch: the lines printed, and whether the loop    *)
(* ran to its end (raised = FALSE) or stopped at a KeyError.               *)
RECURSIVE PrintFrom(_, _)
PrintFrom(devs, i) ==
    IF i > Len(devs) THEN [out |-> <<>>, raised |-> FALSE]
    ELSE IF ~HasListKeys(devs[i]) THEN [out |-> <<>>, raised |-> TRUE]
    ELSE LET rest == PrintFrom(devs, i + 1)
         IN [out |-> <<DeviceLine(devs[i])>> \o rest.out, raised |-> rest.raised]

FoundLine(devs) == "Found " \o ToString(Len(devs)) \o " devices:"

MainList ==
    /\ pc = "start"
    /\ args.action = "list"
    /\ LET r == read_inventory(fs, args.inventory, readFailAt)
           p == PrintFrom(r.devices, 1)
       IN /\ devices' = r.devices
          /\ stdout' = stdout \o r.out \o <<FoundLine(r.devices)>> \o p.out
          /\ pc' = IF p.raised THEN "crashed" ELSE "done"
          /\ exc' = IF p.raised THEN "KeyError" ELSE ""
    /\ UNCHANGED <<fs, fs0, args, readFailAt, writeFault, wrote, parsed,
                   device_name, found>>

(* x or y *)
Truthy(v) == v.t = "str" /\ v.s # ""
Or(v, default) == IF Truthy(v) THEN v.s ELSE default

ExportWriter(a) ==
    IF a.format = Str("json") THEN "json"
    ELSE IF a.format = Str("yaml") THEN "yaml"
    ELSE ""

ExportFilenameDefault(a) ==
    IF a.format = Str("json") THEN "inventory.json" ELSE "inventory.yaml"

ExportFilename(a) ==
    IF a.format = Str("json") THEN Or(a.output, "inventory.json")
    ELSE Or(a.output, "inventory.yaml")

ExportWrites(devs, a) == devs # <<>> /\ ExportWriter(a) # ""

MainExport ==
    /\ pc = "start"
    /\ args.action = "export"
    /\ LET r == read_inventory(fs, args.inventory, readFailAt)
           filename == ExportFilename(args)
           w == IF ExportWriter(args) = "json"
                THEN write_json(fs, r.devices, filename, writeFault)
                ELSE write_yaml(fs, r.devices, filename, writeFault)
       IN /\ devices' = r.devices
          /\ IF ExportWrites(r.devices, args)
             THEN /\ fs' = w.fs
                  /\ stdout' = stdout \o r.out \o w.out
                  /\ wrote' = Append(wrote, [path |-> filename,
                                             writer |-> ExportWriter(args)])
             ELSE /\ stdout' = stdout \o r.out
                  /\ UNCHANGED <<fs, wrote>>
    /\ pc' = "done"
    /\ UNCHANGED <<fs0, args, readFailAt, writeFault, exc, parsed,
                   device_name, found>>

MainAddAppends ==
    /\ pc = "start"
    /\ args.action = "add"
    /\ fs' = [fs EXCEPT ![args.inventory] =
                 CsvFile(Append(@.lines, <<PyStr(args.name), Comma, PyStr(args.ip)>>))]
    /\ pc' = "done"
    /\ UNCHANGED <<fs0, args, readFailAt, writeFault, exc, devices, stdout,
                   wrote, parsed, device_name, found>>

(* No branch of main handles add: the run ends at once. *)
MainAdd ==
    /\ pc = "start"
    /\ args.action = "add"
    /\ pc' = "done"
    /\ UNCHANGED <<fs, fs0, args, readFailAt, writeFault, exc, devices, stdout,
                   wrote, parsed, device_name, found>>

(* Reading an export back with json.load or yaml.safe_load. *)
ParseBack ==
    /\ pc = "done"
    /\ wrote # <<>>
    /\ fs[wrote[1].path].kind \in {"json", "yaml"}
    /\ parsed' = IF fs[wrote[1].path].kind = "json"
                 THEN JsonLoad(fs[wrote[1].path].doc)
                 ELSE YamlLoad(fs[wrote[1].path].doc)
    /\ pc' = "parsed"
    /\ UNCHANGED <<fs, fs0, args, readFailAt, writeFault, exc, devices, stdout,
                   wrote, device_name, found>>

-----------------------------------------------------------------------------
(* The runs of main: every command line over a small set of values, on a   *)
(* file system that holds at most the inventory file.                     *)

Paths == {"inventory.csv", "inventory.json", "inventory.yaml", "out.json"}

RECURSIVE ToLine(_, _)
ToLine(fields, i) ==
    IF i > Len(fields) THEN <<>>
    ELSE (IF i > 1 THEN <<Comma>> ELSE <<>>)
         \o (IF fields[i] = "" THEN <<>> ELSE <<fields[i]>>)
         \o ToLine(fields, i + 1)

Headers ==
    { <<"Name", "Management IP", "Description">>,
      <<"Name", "Management IP">> }

Rows ==
    { <<"sw1", "10.0.0.1", "core switch">>,
      <<"sw2", "", "edge">>,
      <<"sw1">>,
      <<"sw3", "10.0.0.3", "lab", "spare">>,
      <<>> }

RowSeqs == UNION {[1..n -> Rows] : n \in 0..MaxRows}

CsvFiles ==
    {CsvFile(<<>>)} \cup
    {CsvFile(<<ToLine(h, 1)>> \o [i \in 1..Len(rs) |-> ToLine(rs[i], 1)]) :
        h \in Headers, rs \in RowSeqs}

OptionValues(S) == {None} \cup {Str(x) : x \in S}

ListArgs ==
    [action : {"list"}, format : {None}, output : {None},
     inventory : {"inventory.csv", "inventory.json"},
     name : {None}, ip : {None}, user : {None}, password : {None}, desc : {None}]

ExportArgs ==
    [action : {"export"}, format : OptionValues({"json", "yaml"}),
     output : OptionValues({"", "out.json", "inventory.csv"}),
     inventory : {"inventory.csv", "inventory.json"},
     name : {None}, ip : {None}, user : {None}, password : {None}, desc : {None}]

AddArgs ==
    [action : {"add"}, format : {None}, output : OptionValues({"out.json"}),
     inventory : {"inventory.csv"},
     name : OptionValues({"sw9"}), ip : OptionValues({"10.0.0.9"}),
     user : OptionValues({"admin"}), password : OptionValues({"secret"}),
     desc : OptionValues({"new"})]

Init ==
    /\ args \in ListArgs \cup ExportArgs \cup AddArgs
    /\ \E f \in {NoFile} \cup CsvFiles :
          fs = [p \in Paths |-> IF p = args.inventory THEN f ELSE NoFile]
    /\ fs0 = fs
    /\ readFailAt \in {NoFault} \cup 0..(MaxRows + 1)
    /\ writeFault \in {"none", "open", "dump"}
    /\ pc = "start"
    /\ exc = ""
    /\ devices = <<>>
    /\ stdout = <<>>
    /\ wrote = <<>>
    /\ parsed = <<>>
    /\ device_name = None
    /\ found = NotFound

Next == MainList \/ MainExport \/ MainAdd \/ ParseBack

Spec == Init /\ [][Next]_vars

-----------------------------------------------------------------------------
(* read_inventory on its own, on every file of a header line and up to     *)
(* MaxRows more lines, each of up to MaxLineLen tokens.                    *)

Tokens == {"a", "b", Comma}

(* Two pieces of text in a row are one piece: only lines without are drawn. *)
RawLines ==
    {l \in UNION {[1..n -> Tokens] : n \in 0..MaxLineLen} :
        \A i \in 1..(Len(l) - 1) : l[i] = Comma \/ l[i + 1] = Comma}

RawFiles == UNION {[1..n -> RawLines] : n \in 0..(MaxRows + 1)}

NoArgs ==
    [action |-> "", format |-> None, output |-> None, inventory |-> "inventory.csv",
     name |-> None, ip |-> None, user |-> None, password |-> None, desc |-> None]

InitLoad ==
    /\ args = NoArgs
    /\ \E lines \in RawFiles :
          fs = [p \in Paths |-> IF p = "inventory.csv" THEN CsvFile(lines) ELSE NoFile]
    /\ fs0 = fs
    /\ readFailAt = NoFault
    /\ writeFault = "none"
    /\ pc = "start"
    /\ exc = ""
    /\ devices = <<>>
    /\ stdout = <<>>
    /\ wrote = <<>>
    /\ parsed = <<>>
    /\ device_name = None
    /\ found = NotFound

Load ==
    /\ pc = "start"
    /\ LET r == read_inventory(fs, args.inventory, readFailAt)
       IN /\ devices' = r.devices
          /\ stdout' = stdout \o r.out
    /\ pc' = "loaded"
    /\ UNCHANGED <<fs, fs0, args, readFailAt, writeFault, exc, wrote, parsed,
                   device_name, found>>

NextLoad == Load

SpecLoad == InitLoad /\ [][NextLoad]_vars

-----------------------------------------------------------------------------
(* get_device_data on its own, on every list of up to MaxInventory devices.*)

FindNames == {Str("sw1"), Str("sw2")}

FindDevices ==
    { <<<<Str("Name"), n>>, <<Str("Management IP"), Str(ip)>>>> :
         n \in FindNames \cup {None}, ip \in {"10.0.0.1", "10.0.0.2"} }
    \cup { <<<<Str("Management IP"), Str(ip)>>>> : ip \in {"10.0.0.1", "10.0.0.2"} }

InitFind ==
    /\ args = NoArgs
    /\ fs = [p \in Paths |-> NoFile]
    /\ fs0 = fs
    /\ readFailAt = NoFault
    /\ writeFault = "none"
    /\ pc = "start"
    /\ exc = ""
    /\ devices \in UNION {[1..n -> FindDevices] : n \in 0..MaxInventory}
    /\ stdout = <<>>
    /\ wrote = <<>>
    /\ parsed = <<>>
    /\ device_name \in FindNames \cup {Str("sw3")}
    /\ found = NotFound

Find ==
    /\ pc = "start"
    /\ found' = get_device_data(devices, device_name)
    /\ pc' = "found"
    /\ UNCHANGED <<fs, fs0, args, readFailAt, writeFault, exc, devices, stdout,
                   wrote, parsed, device_name>>

NextFind == Find

SpecFind == InitFind /\ [][NextFind]_vars

-----------------------------------------------------------------------------
(* What the properties below speak of. *)

InventoryFile == fs0[args.inventory]

Finished == pc \in {"done", "crashed", "parsed"}

(* The run read the inventory. *)
Reads == Finished /\ args.action \in {"list", "export"}

(* The read failed with something other than a missing file. *)
ReadFailed ==
    /\ InventoryFile.kind = "csv"
    /\ \/ readFailAt = 0
       \/ readFailAt >= 1 /\ readFailAt <= Len(InventoryFile.lines)

(* The read went through. *)
ReadSucceeded == InventoryFile.kind = "csv" /\ ~ReadFailed

NotFoundMessage == "Error: Inventory file " \o args.inventory \o " not found"

(* The fields of a line of text, by the positions of its commas. *)
CommasUpTo(line, i) == Cardinality({c \in 1..i : line[c] = Comma})

NumFields(line) == CommasUpTo(line, Len(line)) + 1

RECURSIVE Cat(_, _, _)
Cat(line, i, e) == IF i > e THEN "" ELSE line[i] \o Cat(line, i + 1, e)

FieldText(line, j) ==
    LET inField == {i \in 1..Len(line) : line[i] # Comma /\ CommasUpTo(line, i) = j - 1}
    IN IF inField = {} THEN ""
       ELSE LET first == CHOOSE i \in inField : \A k \in inField : i <= k
                last == CHOOSE i \in inField : \A k \in inField : k <= i
            IN Cat(line, first, last)

(* A valid CSV file: a header line of distinct field names, and data rows  *)
(* that are not blank and have as many fields as the header.               *)
ValidCsv(lines) ==
    /\ Len(lines) >= 1
    /\ lines[1] # <<>>
    /\ \A j, k \in 1..NumFields(lines[1]) :
          j # k => FieldText(lines[1], j) # FieldText(lines[1], k)
    /\ \A i \in 2..Len(lines) :
          lines[i] # <<>> /\ NumFields(lines[i]) = NumFields(lines[1])

SameRecords(a, b) ==
    /\ Len(a) = Len(b)
    /\ \A i \in 1..Len(a) : DictEq(a[i], b[i])

(* The path the export is to go to, from the command line alone. *)
OutputGiven == args.output # None /\ args.output # Str("")

WantedPath ==
    IF OutputGiven THEN args.output.s
    ELSE IF args.format = Str("json") THEN "inventory.json"
    ELSE "inventory.yaml"

WantedPathAsClaimed ==
    IF args.output # None THEN args.output.s
    ELSE IF args.format = Str("json") THEN "inventory.json"
    ELSE "inventory.yaml"

Matching(device) == DictHas(device, Str("Name")) /\ DictGet(device, Str("Name")) = device_name

MatchingIndexes == {i \in 1..Len(devices) : Matching(devices[i])}

-----------------------------------------------------------------------------
(* C1: on a valid CSV file of a header line and N data rows, read_inventory *)
(* returns N records in file order, and record i maps every field name of  *)
(* the header to the value at the same position of data row i, and holds   *)
(* no other key.                                                           *)
LoadReturnsRows ==
    LET lines == InventoryFile.lines IN
    (pc = "loaded" /\ ValidCsv(lines)) =>
        /\ Len(devices) = Len(lines) - 1
        /\ \A i \in 1..Len(devices) :
              /\ DictKeys(devices[i]) =
                    {Str(FieldText(lines[1], j)) : j \in 1..NumFields(lines[1])}
              /\ \A j \in 1..NumFields(lines[1]) :
                    DictGet(devices[i], Str(FieldText(lines[1], j)))
                       = Str(FieldText(lines[i + 1], j))

LoadReturnsRowsWitness ==
    /\ pc = "loaded"
    /\ ValidCsv(InventoryFile.lines)
    /\ NumFields(InventoryFile.lines[1]) = 2
    /\ Len(devices) = 2
    /\ devices[1] # devices[2]

(* C2: when the inventory path does not exist, read_inventory returns the  *)
(* empty list, prints the file-not-found message, and raises nothing: the  *)
(* run goes on and ends without an exception.                              *)
MissingFileGivesEmpty ==
    (Reads /\ InventoryFile.kind = "absent") =>
        /\ devices = <<>>
        /\ Len(stdout) >= 1
        /\ stdout[1] = NotFoundMessage
        /\ exc = ""

MissingFileWitness ==
    /\ pc = "done"
    /\ args.action = "list"
    /\ InventoryFile.kind = "absent"
    /\ stdout = <<NotFoundMessage, "Found 0 devices:">>

(* C3: when the read fails with anything but a missing file, at any point  *)
(* of the read, the failure is reported and the returned list is empty.    *)
ReadFailureGivesEmpty ==
    (Reads /\ ReadFailed) =>
        /\ devices = <<>>
        /\ Len(stdout) >= 1
        /\ stdout[1] = "Error reading inventory: <e>"

(* C4: get_device_data returns the device of lowest index whose Name is    *)
(* the name asked for, and None when no device has that name.              *)
FindReturnsFirstMatch ==
    pc = "found" =>
        IF MatchingIndexes = {}
        THEN found = NotFound
        ELSE /\ found.index \in MatchingIndexes
             /\ \A i \in MatchingIndexes : found.index <= i
             /\ found.device = devices[found.index]

FindWitness ==
    /\ pc = "found"
    /\ found.index = 2
    /\ 3 \in MatchingIndexes
    /\ devices[3] # devices[2]

(* C5 as claimed: for either format, an export parsed back is the list of  *)
(* records that was exported: as long, in the same order, each object with *)
(* the same keys and values.                                               *)
RoundTripAll == pc = "parsed" => SameRecords(parsed, devices)

(* C5 as amended: the same for YAML, and for JSON when no record has the   *)
(* key None, which is to say no data row had more fields than the header.  *)
RoundTripStringKeys ==
    (/\ pc = "parsed"
     /\ \/ wrote[1].writer = "yaml"
        \/ \A i \in 1..Len(devices) : ~DictHas(devices[i], None))
    => SameRecords(parsed, devices)

RoundTripWitness ==
    /\ pc = "parsed"
    /\ wrote[1].writer = "yaml"
    /\ Len(devices) = 2
    /\ DictGet(devices[1], Str("Management IP")) = Str("")
    /\ DictHas(devices[2], None)
    /\ SameRecords(parsed, devices)

(* C6 as claimed: after an export the inventory file holds what it held    *)
(* before, whatever the arguments.                                         *)
ExportKeepsInventory ==
    (Finished /\ args.action = "export") => fs[args.inventory] = InventoryFile

(* C6 as amended: the same, for every command line whose output path is    *)
(* not the inventory path.                                                 *)
ExportKeepsOtherInventory ==
    (Finished /\ args.action = "export" /\ WantedPath # args.inventory)
    => fs[args.inventory] = InventoryFile

ExportKeepsWitness ==
    /\ pc = "done"
    /\ args.action = "export"
    /\ WantedPath # args.inventory
    /\ fs[WantedPath].kind = "json"
    /\ fs[args.inventory] = InventoryFile
    /\ InventoryFile.kind = "csv"

(* C7: whatever the action and whatever fails, main ends without an        *)
(* uncaught exception.                                                     *)
MainNeverRaises == exc = "" /\ pc # "crashed"

(* C8 as claimed: an export with a format, of an inventory that was read,  *)
(* opens exactly one file for writing: --output if given, else the default *)
(* of the format; and the writer is the one of the format.                 *)
ExportWritesOneFile ==
    (Finished /\ args.action = "export" /\ args.format # None /\ ReadSucceeded)
    => wrote = <<[path |-> WantedPathAsClaimed, writer |-> args.format.s]>>

(* C8 as amended: an export writes only when a format is given and at      *)
(* least one record was read.  It then opens exactly one file: --output if *)
(* given and not empty, else the default of the format, with the writer of *)
(* the format; unless the write fails the file holds that serialization of *)
(* the records, and no other file changes.  Otherwise nothing is written.  *)
ExportWritesOneFileIfRecords ==
    (Finished /\ args.action = "export") =>
        IF args.format # None /\ devices # <<>>
        THEN /\ wrote = <<[path |-> WantedPath, writer |-> args.format.s]>>
             /\ \A p \in Paths : p # WantedPath => fs[p] = fs0[p]
             /\ writeFault = "none" =>
                   fs[WantedPath] =
                      DocFile(args.format.s,
                              IF args.format.s = "json" THEN JsonDump(devices)
                              ELSE YamlDump(devices))
        ELSE wrote = <<>> /\ fs = fs0

ExportWritesWitness ==
    /\ pc = "done"
    /\ args.action = "export"
    /\ args.format = Str("yaml")
    /\ args.output = Str("out.json")
    /\ Len(devices) = 2
    /\ fs["out.json"].kind = "yaml"

(* C9: list prints the count and then one line for each record read, in    *)
(* order, made of its Name, Management IP and Description.                 *)
ListPrintsEveryRecord ==
    (Finished /\ args.action = "list") =>
        LET n == Len(devices)
            k == Len(stdout) - n
        IN /\ k >= 1
           /\ stdout[k] = "Found " \o ToString(n) \o " devices:"
           /\ \A i \in 1..n : stdout[k + i] = DeviceLine(devices[i])

(* C10: an add run changes no file, opens none for writing and reads no    *)
(* record; a file changes or is opened for writing only in an export.      *)
AddPersistsNothing ==
    /\ (Finished /\ args.action = "add") =>
          fs = fs0 /\ wrote = <<>> /\ devices = <<>>
    /\ (fs # fs0 \/ wrote # <<>>) => args.action = "export"

AddWitness ==
    /\ pc = "done"
    /\ args.action = "add"
    /\ args.name = Str("sw9")
    /\ args.desc = Str("new")
    /\ InventoryFile.kind = "csv"
    /\ Len(InventoryFile.lines) = 3
    /\ fs = fs0

====
